---- MODULE Spec2Model ----
(***************************************************************************)
(* Model of scripts/kani_chunked_runner.py: the chunk partitioner          *)
(* (partition_range, calculate_chunk_config), the CSV completion record    *)
(* (ProofRecord) and the checkpointed execution loop of main().            *)
(*                                                                         *)
(* Three specifications share the module:                                  *)
(*   SpecPart  applies the partitioner to bounded inputs;                  *)
(*   SpecRec   applies get_completed_chunks / remaining_chunks to bounded  *)
(*             records and appends rows to them;                           *)
(*   Spec      runs sequential sessions of main() against one store.       *)
(***************************************************************************)
EXTENDS Integers, Sequences, FiniteSets, TLC

VARIABLES
    \* ---- SpecPart: inputs and result of the partitioner
    part_mode,      \* "off" | "range" | "plan"
    part_args,      \* [start, end, num_chunks, proof_type]
    part_done,      \* the function has been applied
    part_result,    \* [raised, chunks, total]
    \* ---- SpecRec: a record and what reconcile computes from it
    rec_rows,       \* the rows of the record under test
    rec_type,       \* self.proof_type of the reading ProofRecord
    rec_total,      \* total_chunks of the plan
    rec_phase,      \* "off" | "loaded" | "appended" | "reconciled"
    rec_completed,  \* result of get_completed_chunks
    rec_remaining,  \* remaining_chunks of main
    \* ---- Spec: the store and one session of main()
    store_n,        \* the chunk count N of the store kani_proof_record_N.csv
    csv_exists,     \* csv_path.exists()
    csv_rows,       \* the data rows of the store, in file order
    pc,             \* position of main()
    proof_type,     \* sys.argv[1]
    num_chunks,     \* int(sys.argv[2])
    config,         \* calculate_chunk_config(proof_type, num_chunks)
    completed,      \* the in-memory completed set
    remaining_chunks, \* the list iterated by the execution loop
    loop_pos,       \* 1-based position in remaining_chunks of the current chunk
    status,         \* status returned by run_chunk for the current chunk
    exit_code,      \* "none" | "0" | "1" | "killed": how the process ended
    verdict,        \* the last verdict the session printed
    \* ---- history of the current session (observers, never read by main)
    h_start_rows,   \* the rows of the store when the session started
    h_dispatched,   \* chunk indices dispatched in this session, in order
    h_rows_at_dispatch, \* the rows of the store at the last dispatch
    h_end,          \* why the session ended
    h_int_at,       \* where an interrupt hit the session
    h_answer,       \* the answer just typed at a prompt
    h_event,        \* how the job of the current chunk ended
    h_argv2,        \* sys.argv[2] of the session
    \* ---- SpecConc: two sessions of main() on one store at the same time
    c_exists,       \* csv_path.exists()
    c_rows,         \* the data rows of the store, in file order
    c_pc,           \* position of each session
    c_completed,    \* the in-memory completed set of each session
    c_remaining,    \* remaining_chunks of each session
    c_pos,          \* 1-based position of each session in its remaining_chunks
    c_status,       \* status returned by run_chunk to each session
    c_log           \* observer: every row a session has appended, in order

part_vars == <<part_mode, part_args, part_done, part_result>>
rec_vars == <<rec_rows, rec_type, rec_total, rec_phase, rec_completed,
              rec_remaining>>
main_vars == <<store_n, csv_exists, csv_rows, pc, proof_type, num_chunks, config,
               completed, remaining_chunks, loop_pos, status, exit_code, verdict,
               h_start_rows, h_dispatched, h_rows_at_dispatch, h_end, h_int_at,
               h_answer, h_event, h_argv2>>
conc_vars == <<c_exists, c_rows, c_pc, c_completed, c_remaining, c_pos, c_status,
               c_log>>
vars == <<part_vars, rec_vars, main_vars, conc_vars>>

----------------------------------------------------------------------------
(* Bounds of the model *)

MaxLo == 2            \* SpecPart: start ranges over 0..MaxLo
MaxWidth == 6         \* SpecPart: end - start + 1 ranges over 1..MaxWidth
MaxParts == 8         \* SpecPart: num_chunks ranges over MinParts..MaxParts
MaxPlanChunks == 32   \* SpecPart: num_chunks of calculate_chunk_config
MaxRecLen == 2        \* SpecRec: rows of a record
MaxRecTotal == 2      \* SpecRec: total_chunks of the plan
MaxChunks == 3        \* Spec: the chunk count N of the store
MaxRows == 5          \* Spec: a session starts only if its rows fit in MaxRows
ConcChunks == 2       \* SpecConc: the chunk count both sessions are started with

----------------------------------------------------------------------------
(* Helpers on sequences and sets *)

Min(a, b) == IF a < b THEN a ELSE b

RECURSIVE SumSeq(_)
SumSeq(s) == IF s = << >> THEN 0 ELSE Head(s) + SumSeq(Tail(s))

IsPrefix(s, t) == Len(s) <= Len(t) /\ SubSeq(t, 1, Len(s)) = s

----------------------------------------------------------------------------
(* PROOF_SPACES: the byte ranges of each proof category, inclusive. *)

ProofTypes == {"2byte", "3byte", "4byte"}

PROOF_SPACES ==
    [pt \in ProofTypes |->
        CASE pt = "2byte" ->
                [byte1_range |-> <<194, 223>>,                  \* 0xC2, 0xDF
                 secondary |-> << <<128, 191>> >>,              \* 0x80, 0xBF
                 total_combos |-> 3968]
          [] pt = "3byte" ->
                [byte1_range |-> <<225, 236>>,                  \* 0xE1, 0xEC
                 secondary |-> << <<128, 191>>, <<128, 191>> >>,
                 total_combos |-> 49152]
          [] pt = "4byte" ->
                [byte1_range |-> <<241, 243>>,                  \* 0xF1, 0xF3
                 secondary |-> << <<128, 191>>, <<128, 191>>, <<128, 191>> >>,
                 total_combos |-> 786432]]

----------------------------------------------------------------------------
(* partition_range(start, end, num_chunks), with n for num_chunks *)

\* total_values // num_chunks raises ZeroDivisionError when n = 0
partition_range_raises(n) == n = 0

\* mutant of partition_loop: the start of a chunk is clamped to `end` as well
RECURSIVE partition_loop_clamped(_, _, _, _, _, _, _)
partition_loop_clamped(i, current, chunks, end, n, chunk_size, remainder) ==
    IF i >= n THEN chunks
    ELSE LET size == chunk_size + (IF i < remainder THEN 1 ELSE 0)
             chunk_end == current + size - 1
         IN  partition_loop_clamped(i + 1, chunk_end + 1,
                Append(chunks, <<Min(current, end), Min(chunk_end, end)>>),
                end, n, chunk_size, remainder)

\* the body of the for loop, iteration i with the running `current`
RECURSIVE partition_loop(_, _, _, _, _, _, _)
partition_loop(i, current, chunks, end, n, chunk_size, remainder) ==
    IF i >= n THEN chunks
    ELSE LET size == chunk_size + (IF i < remainder THEN 1 ELSE 0)
             chunk_end == current + size - 1
         IN  partition_loop(i + 1, chunk_end + 1,
                            Append(chunks, <<current, Min(chunk_end, end)>>),
                            end, n, chunk_size, remainder)

\* mutant of partition_range: the remainder goes to the last chunks
partition_range_backloaded(start, end, n) ==
    IF n < 1 THEN << >>
    ELSE LET total_values == end - start + 1
             chunk_size == total_values \div n
             remainder == total_values % n
             sizeOf(i) == chunk_size + (IF i >= n - remainder THEN 1 ELSE 0)
             RECURSIVE loop(_, _, _)
             loop(i, current, chunks) ==
                IF i >= n THEN chunks
                ELSE loop(i + 1, current + sizeOf(i),
                          Append(chunks, <<current, Min(current + sizeOf(i) - 1, end)>>))
         IN  loop(0, start, << >>)

\* range(num_chunks) is empty for a negative num_chunks: the loop never runs
partition_range(start, end, n) ==
    IF n < 1 THEN << >>
    ELSE LET total_values == end - start + 1
             chunk_size == total_values \div n
             remainder == total_values % n
         IN  partition_loop(0, start, << >>, end, n, chunk_size, remainder)

----------------------------------------------------------------------------
(* calculate_chunk_config(proof_type, num_chunks) *)

calculate_chunk_config_raises(pt, n) ==
    pt \notin ProofTypes \/ partition_range_raises(n)

RangeCount(r) == r[2] - r[1] + 1

RECURSIVE ProdCounts(_)
ProdCounts(rs) == IF rs = << >> THEN 1 ELSE RangeCount(Head(rs)) * ProdCounts(Tail(rs))

\* byte2_count [* byte3_count [* byte4_count]] of the category
combos_per_byte1(pt) == ProdCounts(PROOF_SPACES[pt].secondary)

\* "harness": f"verify_{proof_type}_{num_chunks}chunks_{i}"
harness_name(pt, n, i) == <<"verify", pt, n, "chunks", i>>

calculate_chunk_config(pt, n) ==
    LET space == PROOF_SPACES[pt]
        byte1_chunks == partition_range(space.byte1_range[1], space.byte1_range[2], n)
    IN  [chunks |-> [k \in 1..Len(byte1_chunks) |->
                        [chunk_num |-> k - 1,
                         harness |-> harness_name(pt, n, k - 1),
                         byte_range |-> byte1_chunks[k],
                         combos |-> RangeCount(byte1_chunks[k]) * combos_per_byte1(pt)]],
         total |-> space.total_combos]

----------------------------------------------------------------------------
(* ProofRecord: the CSV store.  A data row keeps the columns main() reads   *)
(* back or that identify the attempt; the csv module writes every value as  *)
(* text, so Chunk_Number is stored as its decimal digits.                   *)

\* str(k) for k >= 0, as the sequence of its decimal digits
RECURSIVE str_int(_)
str_int(k) == IF k < 10 THEN <<k>> ELSE Append(str_int(k \div 10), k % 10)

\* int(s) for a sequence of decimal digits
RECURSIVE int_str(_)
int_str(s) == IF Len(s) = 1 THEN s[1]
              ELSE 10 * int_str(SubSeq(s, 1, Len(s) - 1)) + s[Len(s)]

\* the row dict built by append_result (self.proof_type = pt, self.num_chunks = n)
csv_row(pt, n, chunk_num, chunk_range, combos, st) ==
    [Proof_Type |-> pt,
     Chunk_Number |-> str_int(chunk_num),
     Total_Chunks |-> str_int(n),
     Byte_Range |-> chunk_range,
     Combinations |-> combos,
     Status |-> st]

\* ProofRecord.append_result: open(csv_path, 'a') and writer.writerow(row)
append_result(rows, pt, n, chunk_num, chunk_range, combos, st) ==
    Append(rows, csv_row(pt, n, chunk_num, chunk_range, combos, st))

\* mutant of get_completed_chunks: the Proof_Type filter is dropped
get_completed_chunks_anytype(rows, pt) ==
    {int_str(rows[i].Chunk_Number) :
        i \in {j \in 1..Len(rows) : rows[j].Status = "SUCCESS"}}

\* mutant of get_completed_chunks: the last row of an index decides
get_completed_chunks_lastwins(rows, pt) ==
    {int_str(rows[i].Chunk_Number) :
        i \in {j \in 1..Len(rows) :
                /\ rows[j].Proof_Type = pt
                /\ rows[j].Status = "SUCCESS"
                /\ \A l \in (j + 1)..Len(rows) :
                      rows[l].Proof_Type = pt /\ rows[l].Chunk_Number = rows[j].Chunk_Number
                        => rows[l].Status = "SUCCESS"}}

\* mutant of get_completed_chunks: the category of the store's first row is
\* taken for the session's
get_completed_chunks_firstrow(rows, pt) ==
    {int_str(rows[i].Chunk_Number) :
        i \in {j \in 1..Len(rows) :
                rows[j].Proof_Type = rows[1].Proof_Type /\ rows[j].Status = "SUCCESS"}}

\* ProofRecord.get_completed_chunks for self.proof_type = pt
get_completed_chunks(rows, pt) ==
    {int_str(rows[i].Chunk_Number) :
        i \in {j \in 1..Len(rows) : rows[j].Proof_Type = pt /\ rows[j].Status = "SUCCESS"}}

\* [i for i in range(total_chunks) if i not in completed]
RECURSIVE remaining_from(_, _, _)
remaining_from(i, total, done) ==
    IF i >= total THEN << >>
    ELSE IF i \notin done THEN <<i>> \o remaining_from(i + 1, total, done)
    ELSE remaining_from(i + 1, total, done)

\* mutant of remaining_of: the list is walked twice
remaining_of_twice(total, done) ==
    remaining_from(0, total, done) \o remaining_from(0, total, done)

\* mutant of remaining_of: the completed indices are not skipped
remaining_of_all(total, done) == remaining_from(0, total, {})

remaining_of(total, done) == remaining_from(0, total, done)

\* the statuses run_chunk can return with timeout=None
RunStatuses == {"SUCCESS", "FAILED", "ERROR: spawn"}

----------------------------------------------------------------------------
(* Values the variables of a specification that is not running hold *)

PartOff ==
    /\ part_mode = "off"
    /\ part_args = << >>
    /\ part_done = FALSE
    /\ part_result = << >>

RecOff ==
    /\ rec_rows = << >>
    /\ rec_type = "none"
    /\ rec_total = 0
    /\ rec_phase = "off"
    /\ rec_completed = {}
    /\ rec_remaining = << >>

ConcOff ==
    /\ c_exists = FALSE
    /\ c_rows = << >>
    /\ c_pc = << >>
    /\ c_completed = << >>
    /\ c_remaining = << >>
    /\ c_pos = << >>
    /\ c_status = << >>
    /\ c_log = << >>

MainOff ==
    /\ store_n = 0
    /\ csv_exists = FALSE
    /\ csv_rows = << >>
    /\ pc = "off"
    /\ proof_type = "none"
    /\ num_chunks = 0
    /\ config = << >>
    /\ completed = {}
    /\ remaining_chunks = << >>
    /\ loop_pos = 0
    /\ status = "none"
    /\ exit_code = "none"
    /\ verdict = "none"
    /\ h_start_rows = << >>
    /\ h_dispatched = << >>
    /\ h_rows_at_dispatch = << >>
    /\ h_end = "none"
    /\ h_int_at = "none"
    /\ h_answer = "none"
    /\ h_event = "none"
    /\ h_argv2 = [is_int |-> FALSE, val |-> 0]

----------------------------------------------------------------------------
(* SpecPart: the partitioner applied to bounded inputs *)

PartInit ==
    /\ \/ /\ part_mode = "range"
          /\ \E lo \in 0..MaxLo, w \in 1..MaxWidth, n \in (0 - 1)..MaxParts :
                part_args = [start |-> lo, end |-> lo + w - 1, num_chunks |-> n,
                             proof_type |-> "none"]
       \/ /\ part_mode = "plan"
          /\ \E pt \in ProofTypes \cup {"5byte"}, n \in (0 - 1)..MaxPlanChunks :
                part_args = [start |-> 0, end |-> 0, num_chunks |-> n,
                             proof_type |-> pt]
    /\ part_done = FALSE
    /\ part_result = << >>
    /\ RecOff
    /\ MainOff
    /\ ConcOff

PartitionRange ==
    /\ part_mode = "range"
    /\ ~part_done
    /\ part_done' = TRUE
    /\ part_result' =
        IF partition_range_raises(part_args.num_chunks)
        THEN [raised |-> TRUE, chunks |-> << >>, total |-> 0]
        ELSE [raised |-> FALSE,
              chunks |-> partition_range(part_args.start, part_args.end,
                                         part_args.num_chunks),
              total |-> 0]
    /\ UNCHANGED <<part_mode, part_args, rec_vars, main_vars, conc_vars>>

CalculateChunkConfig ==
    /\ part_mode = "plan"
    /\ ~part_done
    /\ part_done' = TRUE
    /\ part_result' =
        IF calculate_chunk_config_raises(part_args.proof_type, part_args.num_chunks)
        THEN [raised |-> TRUE, chunks |-> << >>, total |-> 0]
        ELSE LET cfg == calculate_chunk_config(part_args.proof_type,
                                               part_args.num_chunks)
             IN  [raised |-> FALSE, chunks |-> cfg.chunks, total |-> cfg.total]
    /\ UNCHANGED <<part_mode, part_args, rec_vars, main_vars, conc_vars>>

PartNext == PartitionRange \/ CalculateChunkConfig

SpecPart == PartInit /\ [][PartNext]_vars

----------------------------------------------------------------------------
(* SpecRec: reconcile applied to bounded records, and rows appended to them *)

RecTypes == {"2byte", "3byte"}

RecRowsOf(total) ==
    {csv_row(pt, total, k, <<0, 0>>, 0, st) :
        pt \in RecTypes, k \in 0..(total - 1), st \in RunStatuses}

SeqsUpTo(S, n) == UNION {[1..m -> S] : m \in 0..n}

RecInit ==
    /\ rec_total \in 1..MaxRecTotal
    /\ rec_type \in RecTypes
    /\ rec_rows \in SeqsUpTo(RecRowsOf(rec_total), MaxRecLen)
    /\ rec_phase = "loaded"
    /\ rec_completed = {}
    /\ rec_remaining = << >>
    /\ PartOff
    /\ MainOff
    /\ ConcOff

\* main, lines 272-274, on a store holding rec_rows
Reconcile ==
    /\ rec_phase \in {"loaded", "appended"}
    /\ rec_phase' = "reconciled"
    /\ rec_completed' = get_completed_chunks(rec_rows, rec_type)
    /\ rec_remaining' = remaining_of(rec_total,
                                     get_completed_chunks(rec_rows, rec_type))
    /\ UNCHANGED <<rec_rows, rec_type, rec_total, part_vars, main_vars, conc_vars>>

\* a ProofRecord of any category appends a row of any index and status
AppendRow ==
    /\ Len(rec_rows) < MaxRecLen
    /\ \E pt \in RecTypes, k \in 0..(rec_total - 1), st \in RunStatuses :
          rec_rows' = append_result(rec_rows, pt, rec_total, k, <<0, 0>>, 0, st)
    /\ rec_phase' = "appended"
    /\ UNCHANGED <<rec_type, rec_total, rec_completed, rec_remaining,
                   part_vars, main_vars, conc_vars>>

RecNext == Reconcile \/ AppendRow

SpecRec == RecInit /\ [][RecNext]_vars

----------------------------------------------------------------------------
(* Spec: sequential sessions of main() against the store                    *)
(* kani_proof_record_N.csv.  csv_path depends on num_chunks only, so a      *)
(* session with another chunk count works on another file: a behaviour      *)
(* follows the one store of chunk count store_n.                            *)

\* sys.argv[1] of a session: two supported categories and an unsupported one
ArgTypes == {"2byte", "4byte", "5byte"}

\* sys.argv[2] of a session: the store's count, 0, -1, or text that is no integer
ArgCounts ==
    {[is_int |-> TRUE, val |-> v] : v \in {store_n, 0, 0 - 1}}
        \cup {[is_int |-> FALSE, val |-> 0]}

\* answers typed at a prompt
Answers == {"y", "Y", "n", ""}

\* str.lower() on the answers
lower(resp) == IF resp = "Y" THEN "y" ELSE resp

\* how the subprocess.run of run_chunk ends
JobEvents == {"exit0", "exit_nonzero", "OSError", "KeyboardInterrupt"}

\* mutant of run_chunk_propagates: a bare except catches the interrupt too
run_chunk_catches_all(ev) == FALSE

\* run_chunk: `except Exception` catches OSError, not KeyboardInterrupt
run_chunk_propagates(ev) == ev = "KeyboardInterrupt"

\* mutant of run_chunk: the return code is not looked at
run_chunk_ignores_returncode(ev) ==
    CASE ev \in {"exit0", "exit_nonzero"} -> "SUCCESS"
      [] ev = "OSError" -> "ERROR: spawn"
      [] OTHER -> "ERROR: interrupt"

\* run_chunk: the status returned for a job that ended with ev
run_chunk(ev) ==
    CASE ev = "exit0" -> "SUCCESS"
      [] ev = "exit_nonzero" -> "FAILED"
      [] ev = "OSError" -> "ERROR: spawn"
      [] OTHER -> "ERROR: interrupt"

\* mutant of config_rejected: the num_chunks < 1 check and the try around
\* calculate_chunk_config are missing
config_rejected_type_only(pt, a) ==
    IF ~a.is_int THEN TRUE ELSE pt \notin ProofTypes

\* main, lines 248-268: the configuration is rejected with sys.exit(1)
config_rejected(pt, a) ==
    IF ~a.is_int THEN TRUE
    ELSE IF a.val < 1 THEN TRUE
    ELSE IF pt \notin ProofTypes THEN TRUE
    ELSE calculate_chunk_config_raises(pt, a.val)

\* ProofRecord.__init__, line 120: the name of the store, the parts of the
\* f-string in order
csv_path(pt, n) == <<"kani_proof_record_", str_int(n), ".csv">>

\* mutant of record_init: the store is opened with 'w' whether it exists or not
record_init_truncating(exists, rows) == <<TRUE, << >> >>

\* ProofRecord.__init__, lines 134-141: <<exists, rows>> of the store afterwards
record_init(exists, rows) ==
    IF ~exists THEN <<TRUE, << >> >> ELSE <<exists, rows>>

\* mutant of is_verified: no outcome is prompted about
is_verified_always(st) == TRUE

\* main, line 326: the outcome is not prompted about
is_verified(st) == st = "SUCCESS"

\* main, lines 298 and 332: the answer lets the session go on
goes_on(resp) == lower(resp) = "y"

\* main, line 347: the final verdict
final_verdict(done, total) ==
    IF Cardinality(done) = total THEN "ALL CHUNKS VERIFIED"
    ELSE "Partial completion"

total_chunks == Len(config.chunks)

\* the chunk of the current iteration of the for loop
chunk_num == remaining_chunks[loop_pos]

chunk_info == config.chunks[chunk_num + 1]

MainInit ==
    /\ store_n \in 1..MaxChunks
    /\ csv_exists = FALSE
    /\ csv_rows = << >>
    /\ pc = "idle"
    /\ proof_type = "none"
    /\ num_chunks = 0
    /\ config = [chunks |-> << >>, total |-> 0]
    /\ completed = {}
    /\ remaining_chunks = << >>
    /\ loop_pos = 0
    /\ status = "none"
    /\ exit_code = "none"
    /\ verdict = "none"
    /\ h_start_rows = << >>
    /\ h_dispatched = << >>
    /\ h_rows_at_dispatch = << >>
    /\ h_end = "none"
    /\ h_int_at = "none"
    /\ h_answer = "none"
    /\ h_event = "none"
    /\ h_argv2 = [is_int |-> FALSE, val |-> 0]
    /\ PartOff
    /\ RecOff
    /\ ConcOff

\* the session returns or exits: nothing of its state is touched afterwards
SessionEnds(code, why) ==
    /\ pc' = "done"
    /\ exit_code' = code
    /\ h_end' = why

\* top of a for-loop iteration, lines 307-318: the chunk at position pos is
\* dispatched while the store holds rows
Dispatch(pos, rows) ==
    /\ loop_pos' = pos
    /\ pc' = "running"
    /\ status' = "none"
    /\ h_dispatched' = Append(h_dispatched, remaining_chunks[pos])
    /\ h_rows_at_dispatch' = rows
    /\ h_event' = "none"
    /\ UNCHANGED <<exit_code, h_end, verdict>>

\* lines 342-353: the loop is left and the final summary printed
FinalSummary(done, why) ==
    /\ verdict' = final_verdict(done, total_chunks)
    /\ SessionEnds("0", why)
    /\ UNCHANGED <<loop_pos, status, h_dispatched, h_rows_at_dispatch, h_event>>

\* mutant of NextIteration: the loop leaves out the last remaining index
NextIteration_skiplast(done, rows) ==
    /\ completed' = done
    /\ IF loop_pos < Len(remaining_chunks) - 1
       THEN Dispatch(loop_pos + 1, rows)
       ELSE FinalSummary(done, "loop_exhausted")

\* lines 336-340 and the next turn of the for loop
NextIteration(done, rows) ==
    /\ completed' = done
    /\ IF loop_pos < Len(remaining_chunks)
       THEN Dispatch(loop_pos + 1, rows)
       ELSE FinalSummary(done, "loop_exhausted")

\* main, lines 246-297: arguments, plan, store, reconcile, first prompt
StartSession ==
    /\ pc \in {"idle", "done"}
    /\ \E pt \in ArgTypes, a \in ArgCounts :
        /\ proof_type' = pt
        /\ status' = "none"
        /\ loop_pos' = 0
        /\ h_dispatched' = << >>
        /\ h_rows_at_dispatch' = << >>
        /\ h_int_at' = "none"
        /\ h_answer' = "none"
        /\ h_event' = "none"
        /\ h_argv2' = a
        /\ verdict' = "none"
        /\ IF config_rejected(pt, a)
           THEN /\ SessionEnds("1", "config_error")
                /\ num_chunks' = 0
                /\ config' = [chunks |-> << >>, total |-> 0]
                /\ completed' = {}
                /\ remaining_chunks' = << >>
                /\ h_start_rows' = csv_rows
                /\ UNCHANGED <<csv_exists, csv_rows>>
           ELSE /\ Len(csv_rows) + a.val <= MaxRows
                /\ num_chunks' = a.val
                /\ config' = calculate_chunk_config(pt, a.val)
                /\ csv_exists' = record_init(csv_exists, csv_rows)[1]
                /\ csv_rows' = record_init(csv_exists, csv_rows)[2]
                /\ h_start_rows' = csv_rows
                /\ completed' = get_completed_chunks(csv_rows', pt)
                /\ remaining_chunks' = remaining_of(Len(config'.chunks), completed')
                /\ IF remaining_chunks' = << >>
                   THEN SessionEnds("0", "already_verified")
                   ELSE /\ pc' = "confirm"
                        /\ exit_code' = "none"
                        /\ h_end' = "none"
    /\ UNCHANGED <<store_n, part_vars, rec_vars, conc_vars>>

\* main, lines 297-318: the answer to "Continue? (y/N)"
Confirm ==
    /\ pc = "confirm"
    /\ \E resp \in Answers :
        /\ h_answer' = resp
        /\ IF goes_on(resp)
           THEN Dispatch(1, csv_rows)
           ELSE /\ SessionEnds("0", "cancelled")
                /\ UNCHANGED <<loop_pos, status, verdict, h_dispatched,
                               h_rows_at_dispatch, h_event>>
    /\ UNCHANGED <<store_n, csv_exists, csv_rows, proof_type, num_chunks, config,
                   completed, remaining_chunks, h_start_rows, h_int_at, h_argv2,
                   part_vars, rec_vars, conc_vars>>

\* run_chunk, lines 209-232: the blocking job ends
JobEnds ==
    /\ pc = "running"
    /\ h_answer' = "none"
    /\ \E ev \in JobEvents :
        /\ h_event' = ev
        /\ h_int_at' = IF ev = "KeyboardInterrupt" THEN "running" ELSE h_int_at
        /\ IF run_chunk_propagates(ev)
           THEN /\ SessionEnds("killed", "interrupted")
                /\ UNCHANGED status
           ELSE /\ status' = run_chunk(ev)
                /\ pc' = "returned"
                /\ UNCHANGED <<exit_code, h_end>>
    /\ UNCHANGED <<store_n, csv_exists, csv_rows, proof_type, num_chunks, config,
                   completed, remaining_chunks, loop_pos, verdict, h_start_rows,
                   h_dispatched, h_rows_at_dispatch, h_argv2, part_vars, rec_vars, conc_vars>>

\* main, lines 320-340: the result is appended; a SUCCESS goes on with the loop
RecordResult ==
    /\ pc = "returned"
    /\ h_answer' = "none"
    /\ csv_rows' = append_result(csv_rows, proof_type, num_chunks, chunk_num,
                                 chunk_info.byte_range, chunk_info.combos, status)
    /\ IF is_verified(status)
       THEN NextIteration(completed \cup {chunk_num}, csv_rows')
       ELSE /\ pc' = "prompt"
            /\ UNCHANGED <<completed, loop_pos, status, exit_code, verdict,
                           h_dispatched, h_rows_at_dispatch, h_end, h_event>>
    /\ UNCHANGED <<store_n, csv_exists, proof_type, num_chunks, config,
                   remaining_chunks, h_start_rows, h_int_at, h_argv2,
                   part_vars, rec_vars, conc_vars>>

\* main, lines 331-340: the answer to "Continue with remaining chunks? (y/N)"
AnswerPrompt ==
    /\ pc = "prompt"
    /\ \E resp \in Answers :
        /\ h_answer' = resp
        /\ IF goes_on(resp)
           THEN NextIteration(completed \cup {chunk_num}, csv_rows)
           ELSE /\ FinalSummary(completed, "stopped")
                /\ UNCHANGED completed
    /\ UNCHANGED <<store_n, csv_exists, csv_rows, proof_type, num_chunks, config,
                   remaining_chunks, h_start_rows, h_int_at, h_argv2,
                   part_vars, rec_vars, conc_vars>>

\* the session is interrupted at a prompt or between the job and the append
Interrupt ==
    /\ pc \in {"confirm", "returned", "prompt"}
    /\ h_int_at' = pc
    /\ h_answer' = "none"
    /\ SessionEnds("killed", "interrupted")
    /\ UNCHANGED <<store_n, csv_exists, csv_rows, proof_type, num_chunks, config,
                   completed, remaining_chunks, loop_pos, status, verdict,
                   h_start_rows, h_dispatched, h_rows_at_dispatch, h_event,
                   h_argv2, part_vars, rec_vars, conc_vars>>

Next == StartSession \/ Confirm \/ JobEnds \/ RecordResult \/ AnswerPrompt \/ Interrupt

Init == MainInit

Spec == Init /\ [][Next]_vars

\* the steps a session takes by itself once started; at most one of them is
\* enabled at a time, each at its own value of pc
SessionStep == Confirm \/ JobEnds \/ RecordResult \/ AnswerPrompt

\* the session under the assumptions that a dispatched job returns
\* (subprocess.run at line 219 has timeout=None and blocks until it does),
\* that the operator answers the prompts (input() at lines 298 and 332 blocks
\* until then), and that the interpreter goes on from line 320 after the job
SpecFair == Init /\ [][Next]_vars /\ WF_vars(SessionStep)

----------------------------------------------------------------------------
(* SpecConc: two sessions started with the same arguments, their steps on the
   shared store interleaved. Each session is main() cut at its accesses to the
   store: the exists() test and the open(.., 'w') of ProofRecord.__init__, the
   read of get_completed_chunks, the job, the open(.., 'a') of append_result *)

Sessions == {1, 2}

\* sys.argv[1] of both sessions
ConcType == "2byte"

ConcPlan == calculate_chunk_config(ConcType, ConcChunks)

\* the chunk of the current iteration of session s
ConcChunkNum(s) == c_remaining[s][c_pos[s]]

ConcInit ==
    /\ c_exists \in BOOLEAN
    /\ c_rows = << >>
    /\ c_pc = [s \in Sessions |-> "init"]
    /\ c_completed = [s \in Sessions |-> {}]
    /\ c_remaining = [s \in Sessions |-> << >>]
    /\ c_pos = [s \in Sessions |-> 0]
    /\ c_status = [s \in Sessions |-> "none"]
    /\ c_log = << >>
    /\ PartOff
    /\ RecOff
    /\ MainOff

\* ProofRecord.__init__, line 134: `if not self.csv_path.exists()`
CheckStore ==
    \E s \in Sessions :
        /\ c_pc[s] = "init"
        /\ c_pc' = [c_pc EXCEPT ![s] = IF c_exists THEN "load" ELSE "create"]
        /\ UNCHANGED <<c_exists, c_rows, c_completed, c_remaining, c_pos, c_status,
                       c_log, part_vars, rec_vars, main_vars>>

\* ProofRecord.__init__, lines 135-141: open(csv_path, 'w') and the header;
\* mode 'w' truncates a file that exists by now
CreateStore ==
    \E s \in Sessions :
        /\ c_pc[s] = "create"
        /\ c_exists' = TRUE
        /\ c_rows' = << >>
        /\ c_pc' = [c_pc EXCEPT ![s] = "load"]
        /\ UNCHANGED <<c_completed, c_remaining, c_pos, c_status, c_log,
                       part_vars, rec_vars, main_vars>>

\* main, lines 272-307: the completed set is read from the store; the session
\* returns with everything verified, or on the answer to "Continue? (y/N)",
\* or enters the loop
LoadCompleted ==
    \E s \in Sessions, resp \in Answers :
        /\ c_pc[s] = "load"
        /\ LET done == IF c_exists THEN get_completed_chunks(c_rows, ConcType) ELSE {}
               rem == remaining_of(Len(ConcPlan.chunks), done)
               enters == rem # << >> /\ goes_on(resp)
           IN  /\ c_completed' = [c_completed EXCEPT ![s] = done]
               /\ c_remaining' = [c_remaining EXCEPT ![s] = rem]
               /\ c_pos' = [c_pos EXCEPT ![s] = IF enters THEN 1 ELSE 0]
               /\ c_pc' = [c_pc EXCEPT ![s] = IF enters THEN "running" ELSE "done"]
        /\ UNCHANGED <<c_exists, c_rows, c_status, c_log,
                       part_vars, rec_vars, main_vars>>

\* run_chunk, lines 209-232: the job of the current chunk ends
ConcJobEnds ==
    \E s \in Sessions, ev \in JobEvents :
        /\ c_pc[s] = "running"
        /\ IF run_chunk_propagates(ev)
           THEN /\ c_pc' = [c_pc EXCEPT ![s] = "done"]
                /\ UNCHANGED c_status
           ELSE /\ c_pc' = [c_pc EXCEPT ![s] = "returned"]
                /\ c_status' = [c_status EXCEPT ![s] = run_chunk(ev)]
        /\ UNCHANGED <<c_exists, c_rows, c_completed, c_remaining, c_pos, c_log,
                       part_vars, rec_vars, main_vars>>

\* lines 336-340 for session s: completed.add and the next turn of the loop
ConcNextIteration(s) ==
    /\ c_completed' = [c_completed EXCEPT ![s] = @ \cup {ConcChunkNum(s)}]
    /\ IF c_pos[s] < Len(c_remaining[s])
       THEN /\ c_pos' = [c_pos EXCEPT ![s] = @ + 1]
            /\ c_pc' = [c_pc EXCEPT ![s] = "running"]
       ELSE /\ c_pc' = [c_pc EXCEPT ![s] = "done"]
            /\ UNCHANGED c_pos

\* main, lines 320-340: append_result opens the store with 'a' and writes the
\* row; a SUCCESS goes on with the loop
ConcRecordResult ==
    \E s \in Sessions :
        /\ c_pc[s] = "returned"
        /\ LET info == ConcPlan.chunks[ConcChunkNum(s) + 1]
               row == csv_row(ConcType, ConcChunks, ConcChunkNum(s), info.byte_range,
                              info.combos, c_status[s])
           IN  /\ c_rows' = append_result(c_rows, ConcType, ConcChunks, ConcChunkNum(s),
                                          info.byte_range, info.combos, c_status[s])
               /\ c_log' = Append(c_log, row)
        /\ c_exists' = TRUE
        /\ IF is_verified(c_status[s])
           THEN ConcNextIteration(s)
           ELSE /\ c_pc' = [c_pc EXCEPT ![s] = "prompt"]
                /\ UNCHANGED <<c_completed, c_pos>>
        /\ UNCHANGED <<c_remaining, c_status, part_vars, rec_vars, main_vars>>

\* main, lines 331-340: the answer to "Continue with remaining chunks? (y/N)"
ConcAnswerPrompt ==
    \E s \in Sessions, resp \in Answers :
        /\ c_pc[s] = "prompt"
        /\ IF goes_on(resp)
           THEN ConcNextIteration(s)
           ELSE /\ c_pc' = [c_pc EXCEPT ![s] = "done"]
                /\ UNCHANGED <<c_completed, c_pos>>
        /\ UNCHANGED <<c_exists, c_rows, c_remaining, c_status, c_log,
                       part_vars, rec_vars, main_vars>>

ConcNext ==
    \/ CheckStore
    \/ CreateStore
    \/ LoadCompleted
    \/ ConcJobEnds
    \/ ConcRecordResult
    \/ ConcAnswerPrompt

SpecConc == ConcInit /\ [][ConcNext]_vars

----------------------------------------------------------------------------
(* Properties of the partitioner (SpecPart) *)

ChunkWidth(c) == c[2] - c[1] + 1

PartWidthIn == part_args.end - part_args.start + 1

\* C3: for an inclusive range [lo, hi] and 1 <= total_chunks <= hi-lo+1,
\* partition_range returns exactly total_chunks sub-ranges, ascending and
\* contiguous, none empty, from lo to hi, of width base+1 for the first
\* (width mod total_chunks) indices and base for the rest.
C3_PartitionExact ==
    (/\ part_mode = "range"
     /\ part_done
     /\ part_args.num_chunks >= 1
     /\ part_args.num_chunks <= PartWidthIn)
    => LET ch == part_result.chunks
           n == part_args.num_chunks
           base == PartWidthIn \div n
           rem == PartWidthIn % n
       IN  /\ ~part_result.raised
           /\ Len(ch) = n
           /\ ch[1][1] = part_args.start
           /\ ch[n][2] = part_args.end
           /\ \A i \in 1..n : ch[i][1] <= ch[i][2]
           /\ \A i \in 1..(n - 1) : ch[i + 1][1] = ch[i][2] + 1
           /\ \A i \in 1..n :
                ChunkWidth(ch[i]) = (IF i - 1 < rem THEN base + 1 ELSE base)
           /\ \A i, j \in 1..n :
                /\ ChunkWidth(ch[i]) - ChunkWidth(ch[j]) <= 1
                /\ i < j => ChunkWidth(ch[i]) >= ChunkWidth(ch[j])

\* C3 witness: a partition with a remainder (width 6 into 4 chunks: 2,2,1,1)
C3_Witness ==
    /\ part_mode = "range"
    /\ part_done
    /\ part_args.num_chunks = 4
    /\ PartWidthIn = 6
    /\ part_args.start = 1
    /\ part_result.chunks = << <<1, 2>>, <<3, 4>>, <<5, 5>>, <<6, 6>> >>

PlanCombos == [k \in 1..Len(part_result.chunks) |-> part_result.chunks[k].combos]

\* C4: for every supported category and every total_chunks >= 1 the combos of
\* the chunks of the plan sum to the plan's total (total_combos), which is
\* 3968 for the two-byte space.
C4_CombosSumToTotal ==
    (/\ part_mode = "plan"
     /\ part_done
     /\ part_args.proof_type \in ProofTypes
     /\ part_args.num_chunks >= 1)
    => /\ ~part_result.raised
       /\ SumSeq(PlanCombos) = part_result.total
       /\ part_args.proof_type = "2byte" => part_result.total = 3968

----------------------------------------------------------------------------
(* Properties of reconcile (SpecRec) *)

\* the record holds a SUCCESS row written for index k under category pt
HasSuccessRow(rows, pt, k) ==
    \E i \in 1..Len(rows) :
        /\ rows[i].Proof_Type = pt
        /\ rows[i].Chunk_Number = str_int(k)
        /\ rows[i].Status = "SUCCESS"

HasFailureRow(rows, pt, k) ==
    \E i \in 1..Len(rows) :
        /\ rows[i].Proof_Type = pt
        /\ rows[i].Chunk_Number = str_int(k)
        /\ rows[i].Status # "SUCCESS"

StrictlyAscending(s) == \A i, j \in 1..Len(s) : i < j => s[i] < s[j]

SeqRange(s) == {s[i] : i \in 1..Len(s)}

\* C1: the remaining list reconcile computes is exactly the plan indices
\* 0..total_chunks-1, ascending, without a SUCCESS row under the session's
\* category, whatever FAILED/ERROR rows exist; a header-only record gives an
\* empty completed-set and the full list.
C1_Resumability ==
    rec_phase = "reconciled"
    => /\ StrictlyAscending(rec_remaining)
       /\ SeqRange(rec_remaining) =
            {k \in 0..(rec_total - 1) : ~HasSuccessRow(rec_rows, rec_type, k)}
       /\ rec_completed =
            {k \in 0..(rec_total - 1) : HasSuccessRow(rec_rows, rec_type, k)}
       /\ rec_rows = << >> =>
            /\ rec_completed = {}
            /\ rec_remaining = [i \in 1..rec_total |-> i - 1]

\* C1 witness: index 0 has a SUCCESS row and a FAILED row and stays excluded;
\* index 1 has no SUCCESS row and remains
C1_Witness ==
    /\ rec_phase = "reconciled"
    /\ rec_total = 2
    /\ HasSuccessRow(rec_rows, rec_type, 0)
    /\ HasFailureRow(rec_rows, rec_type, 0)
    /\ rec_remaining = <<1>>
    /\ rec_completed = {0}

\* C10: appending a row of any status, index or category never removes an
\* index from the completed-set get_completed_chunks computes, for any category.
C10_CompletedMonotone ==
    [][\A pt \in RecTypes :
          get_completed_chunks(rec_rows, pt) \subseteq get_completed_chunks(rec_rows', pt)]_vars

\* C10 witness: a non-SUCCESS row was appended for an index that was complete
C10_Witness ==
    /\ rec_phase = "appended"
    /\ Len(rec_rows) >= 2
    /\ rec_rows[Len(rec_rows)].Status # "SUCCESS"
    /\ rec_rows[Len(rec_rows)].Proof_Type = rec_type
    /\ int_str(rec_rows[Len(rec_rows)].Chunk_Number)
         \in get_completed_chunks(SubSeq(rec_rows, 1, Len(rec_rows) - 1), rec_type)
    /\ int_str(rec_rows[Len(rec_rows)].Chunk_Number)
         \in get_completed_chunks(rec_rows, rec_type)

----------------------------------------------------------------------------
(* Properties of the sessions (Spec) *)

\* the indices of the plan with a SUCCESS row under category pt
SuccessSet(rows, pt, total) == {k \in 0..(total - 1) : HasSuccessRow(rows, pt, k)}

\* the rows this session has appended so far
RowsAppended == Len(csv_rows) - Len(h_start_rows)

LastDispatched == h_dispatched[Len(h_dispatched)]

LastRow == csv_rows[Len(csv_rows)]

\* C2: once the session has recorded an outcome, the in-memory completed-set
\* is the set of indices with a SUCCESS row of this category in the store.
C2_CompletedMatchesRecord ==
    RowsAppended > 0
    => completed = SuccessSet(csv_rows, proof_type, num_chunks)

AllHaveSuccess == SuccessSet(csv_rows, proof_type, num_chunks) = 0..(num_chunks - 1)

\* C5 as claimed: a session that ran its loop and returned did so only with a
\* SUCCESS row for every plan index or on the operator's stop.
C5_EndsOnlyOnSuccessOrStop ==
    (pc = "done" /\ exit_code = "0" /\ h_dispatched # << >>)
    => (AllHaveSuccess \/ h_end = "stopped")

\* C5 amended: a session that returns normally does so only (a) with a
\* SUCCESS row for every plan index, (b) on the operator's stop after a
\* non-success outcome, (c) after every index that lacked a SUCCESS row at its
\* start was dispatched and recorded once, or (d) on a declined confirmation
\* before any dispatch.
C5_TerminalOnlyWhen ==
    (pc = "done" /\ exit_code = "0")
    => \/ AllHaveSuccess
       \/ /\ h_end = "stopped"
          /\ lower(h_answer) # "y"
          /\ RowsAppended = Len(h_dispatched)
          /\ LastRow.Status # "SUCCESS"
          /\ LastRow.Chunk_Number = str_int(LastDispatched)
       \/ /\ h_end = "loop_exhausted"
          /\ h_dispatched =
                remaining_of(num_chunks, SuccessSet(h_start_rows, proof_type, num_chunks))
          /\ RowsAppended = Len(h_dispatched)
       \/ /\ h_end = "cancelled"
          /\ lower(h_answer) # "y"
          /\ h_dispatched = << >>
          /\ csv_rows = h_start_rows

\* C5 witness: the loop ran out after a failure answered with 'continue',
\* and an index still lacks a SUCCESS row
C5_Witness ==
    /\ pc = "done"
    /\ exit_code = "0"
    /\ h_end = "loop_exhausted"
    /\ Len(h_dispatched) >= 2
    /\ ~AllHaveSuccess
    /\ \A i \in (Len(h_start_rows) + 1)..Len(csv_rows) : csv_rows[i].Status # "SUCCESS"

InterruptedNow == h_end' = "interrupted" /\ h_end # "interrupted"

DispatchesNext ==
    /\ pc' = "running"
    /\ h_dispatched' = Append(h_dispatched, remaining_chunks[loop_pos + 1])

\* C6: after a recorded non-SUCCESS outcome nothing is dispatched before the
\* answer to the prompt; 'continue' dispatches the next remaining index,
\* 'stop' ends the session without a dispatch; after a SUCCESS the loop goes
\* on while indices remain.
C6_DecisionBeforeNext ==
    [][/\ (pc = "returned" /\ status # "SUCCESS")
            => /\ h_dispatched' = h_dispatched
               /\ pc' = "prompt" \/ InterruptedNow
       /\ (pc = "prompt" /\ ~InterruptedNow /\ pc' # "prompt")
            => /\ h_answer' \in Answers
               /\ IF lower(h_answer') = "y"
                  THEN IF loop_pos < Len(remaining_chunks)
                       THEN DispatchesNext
                       ELSE pc' = "done" /\ h_dispatched' = h_dispatched
                  ELSE /\ pc' = "done"
                       /\ h_end' = "stopped"
                       /\ h_dispatched' = h_dispatched
       /\ (pc = "returned" /\ status = "SUCCESS" /\ ~InterruptedNow
           /\ loop_pos < Len(remaining_chunks))
            => DispatchesNext
       /\ (pc = "done" /\ h_end = "stopped")
            => h_dispatched' \in {h_dispatched, << >>}
      ]_vars

\* C6 witness: a chunk failed, the operator answered 'continue' and the next
\* remaining index is running
C6_Witness ==
    /\ pc = "running"
    /\ lower(h_answer) = "y"
    /\ Len(h_dispatched) >= 2
    /\ LastRow.Status # "SUCCESS"
    /\ LastRow.Chunk_Number = str_int(h_dispatched[Len(h_dispatched) - 1])

\* C7: the row of an attempt is appended after its job returned: an interrupt
\* during the job of chunk k leaves the store as it was when k was dispatched,
\* and k is in the remaining list of the next session (of the same category;
\* of any category unless k has a SUCCESS row under it).
C7_InterruptLeavesNoRow ==
    /\ [](h_int_at = "running"
            => /\ pc = "done"
               /\ exit_code = "killed"
               /\ csv_rows = h_rows_at_dispatch)
    /\ [][(h_int_at = "running" /\ pc' = "confirm")
            => /\ csv_rows' = h_rows_at_dispatch
               /\ proof_type' = proof_type
                    => LastDispatched \in SeqRange(remaining_chunks')
               /\ \/ LastDispatched \in SeqRange(remaining_chunks')
                  \/ HasSuccessRow(csv_rows, proof_type', LastDispatched)
          ]_vars
    /\ [][(h_int_at = "running" /\ pc' = "done" /\ h_end' = "already_verified")
            => /\ proof_type' # proof_type
               /\ HasSuccessRow(csv_rows, proof_type', LastDispatched)
          ]_vars

\* C7 witness: the session was interrupted during the job of its second chunk;
\* the store holds the one row of the first
C7_Witness ==
    /\ h_int_at = "running"
    /\ pc = "done"
    /\ Len(h_dispatched) = 2
    /\ RowsAppended = 1
    /\ csv_rows = h_rows_at_dispatch
    /\ LastRow.Chunk_Number = str_int(h_dispatched[1])

\* C8: within a session the dispatched indices ascend strictly, every
\* dispatched job but the running one has its row in the store before the next
\* dispatch, and no index with a SUCCESS row at the start of the session is
\* dispatched (none at all, and no row appended, if every index had one).
C8_Ordering ==
    /\ StrictlyAscending(h_dispatched)
    /\ \A i \in 1..Len(h_dispatched) :
          ~HasSuccessRow(h_start_rows, proof_type, h_dispatched[i])
    /\ IsPrefix(h_start_rows, csv_rows)
    /\ h_dispatched # << >>
          => /\ Len(h_rows_at_dispatch) = Len(h_start_rows) + Len(h_dispatched) - 1
             /\ IsPrefix(h_rows_at_dispatch, csv_rows)
             /\ RowsAppended \in {Len(h_dispatched) - 1, Len(h_dispatched)}
    /\ pc \in {"running", "returned"} => RowsAppended = Len(h_dispatched) - 1
    /\ \A i \in 1..RowsAppended :
          /\ csv_rows[Len(h_start_rows) + i].Chunk_Number = str_int(h_dispatched[i])
          /\ csv_rows[Len(h_start_rows) + i].Proof_Type = proof_type
    /\ (pc # "idle" /\ h_end # "config_error"
        /\ SuccessSet(h_start_rows, proof_type, num_chunks) = 0..(num_chunks - 1))
          => /\ h_dispatched = << >>
             /\ csv_rows = h_start_rows
             /\ pc = "done"

\* C8 witness: index 0 had a SUCCESS row when the session started; the session
\* ran 1 to its end, recorded it, and is running 2
C8_Witness ==
    /\ pc = "running"
    /\ HasSuccessRow(h_start_rows, proof_type, 0)
    /\ h_dispatched = <<1, 2>>
    /\ RowsAppended = 1
    /\ LastRow.Chunk_Number = str_int(1)

\* C9: the rows of the store before a step are a prefix of its rows after
\* it; the store is created header-only, and only when absent; an existing
\* store is never emptied or removed; a chunk attempt adds exactly one row.
C9_AppendOnly ==
    [][/\ IsPrefix(csv_rows, csv_rows')
       /\ csv_exists => csv_exists'
       /\ (~csv_exists /\ csv_exists') => csv_rows' = << >>
       /\ (pc = "returned" /\ ~InterruptedNow)
            => /\ Len(csv_rows') = Len(csv_rows) + 1
               /\ csv_rows'[Len(csv_rows')].Chunk_Number = str_int(chunk_num)
               /\ csv_rows'[Len(csv_rows')].Proof_Type = proof_type
               /\ csv_rows'[Len(csv_rows')].Status = status
       /\ (pc # "returned" \/ InterruptedNow) => csv_rows' = csv_rows
      ]_vars

\* C9 witness: a later session on the existing store re-attempted a chunk
\* that has an earlier row; both rows are in the store
C9_Witness ==
    /\ Len(h_start_rows) >= 1
    /\ RowsAppended >= 1
    /\ IsPrefix(h_start_rows, csv_rows)
    /\ \E i \in 1..Len(h_start_rows) :
          /\ csv_rows[i].Proof_Type = LastRow.Proof_Type
          /\ csv_rows[i].Chunk_Number = LastRow.Chunk_Number

\* the status the claim expects for a job that ended with ev
ExpectedStatus(ev) ==
    CASE ev = "exit0" -> {"SUCCESS"}
      [] ev = "exit_nonzero" -> {"FAILED"}
      [] ev = "OSError" -> {"ERROR: spawn"}
      [] OTHER -> {}

\* C11: a job that returns leads to exactly one appended row for its chunk
\* index, SUCCESS for exit status zero, FAILED for a nonzero one, ERROR:...
\* when the process could not be launched; a FAILED or ERROR outcome leads to
\* the prompt, and the session ends from there only by the operator's stop or
\* because no index is left, the same for FAILED and ERROR.
C11_OutcomeRecorded ==
    /\ [](pc = "returned" => status \in ExpectedStatus(h_event))
    /\ [][(pc = "returned" /\ ~InterruptedNow)
            => /\ csv_rows' = Append(csv_rows, csv_rows'[Len(csv_rows) + 1])
               /\ csv_rows'[Len(csv_rows')].Chunk_Number = str_int(chunk_num)
               /\ csv_rows'[Len(csv_rows')].Status \in ExpectedStatus(h_event)
               /\ h_event # "exit0" => pc' = "prompt" /\ h_end' = "none"
          ]_vars
    /\ [][(pc = "prompt" /\ pc' = "done" /\ ~InterruptedNow)
            => /\ exit_code' = "0"
               /\ \/ h_end' = "stopped" /\ lower(h_answer') # "y"
                  \/ /\ h_end' = "loop_exhausted"
                     /\ lower(h_answer') = "y"
                     /\ loop_pos = Len(remaining_chunks)
          ]_vars
    /\ [][(pc = "prompt" /\ lower(h_answer') = "y" /\ pc' # "prompt"
           /\ loop_pos < Len(remaining_chunks))
            => DispatchesNext
          ]_vars

\* C11 witness: the first job exited nonzero and was continued, the second
\* could not be launched; both rows are in the store and the prompt is open
C11_Witness ==
    /\ pc = "prompt"
    /\ h_event = "OSError"
    /\ RowsAppended = 2
    /\ LastRow.Status = "ERROR: spawn"
    /\ LastRow.Chunk_Number = str_int(LastDispatched)
    /\ csv_rows[Len(csv_rows) - 1].Status = "FAILED"

\* the arguments are a configuration error: the category is not supported
\* or the chunk count is not a positive integer
IsConfigError(pt, a) == pt \notin ProofTypes \/ ~a.is_int \/ a.val < 1

\* C12: a configuration error ends the invocation with a nonzero exit status
\* before the store is created, a row appended or a job dispatched: the store
\* is as it was.
C12_ConfigErrorTouchesNothing ==
    /\ [][(pc \in {"idle", "done"} /\ IsConfigError(proof_type', h_argv2'))
            => /\ pc' = "done"
               /\ exit_code' = "1"
               /\ csv_exists' = csv_exists
               /\ csv_rows' = csv_rows
               /\ h_dispatched' = << >>
          ]_vars
    /\ [](exit_code = "1"
            => /\ pc = "done"
               /\ IsConfigError(proof_type, h_argv2)
               /\ h_dispatched = << >>
               /\ csv_rows = h_start_rows)

\* C12 witness: a chunk count that is no integer was rejected on a store
\* that holds a row; another was rejected before any store existed
C12_Witness ==
    /\ pc = "done"
    /\ exit_code = "1"
    /\ ~h_argv2.is_int
    /\ proof_type \in ProofTypes
    /\ csv_exists
    /\ Len(csv_rows) >= 1

----------------------------------------------------------------------------
(* Further properties of the partitioner (SpecPart) *)

\* C13: calculate_chunk_config fails, and returns no plan, whenever
\* total_chunks < 1 or the category is not a supported one.
C13_BuildPlanRejects ==
    (/\ part_mode = "plan"
     /\ part_done
     /\ \/ part_args.num_chunks < 1
        \/ part_args.proof_type \notin ProofTypes)
    => part_result.raised

\* the primary range and its width in either mode of SpecPart
PartLo ==
    IF part_mode = "plan" THEN PROOF_SPACES[part_args.proof_type].byte1_range[1]
    ELSE part_args.start

PartHi ==
    IF part_mode = "plan" THEN PROOF_SPACES[part_args.proof_type].byte1_range[2]
    ELSE part_args.end

\* the sub-range of entry i of the result in either mode
PartRange(i) ==
    IF part_mode = "plan" THEN part_result.chunks[i].byte_range
    ELSE part_result.chunks[i]

C17_ScenarioA ==
    (/\ part_mode = "plan"
     /\ part_done
     /\ part_args.proof_type = "2byte"
     /\ part_args.num_chunks = 2)
    => /\ ~part_result.raised
       /\ Len(part_result.chunks) = 2
       /\ \A i \in 1..2 :
            /\ ChunkWidth(part_result.chunks[i].byte_range) = 31
            /\ part_result.chunks[i].combos = 1984
       /\ SumSeq(PlanCombos) = 3968

----------------------------------------------------------------------------
(* Further properties of the session (Spec) *)

\* a SUCCESS row of another category than pt for index k
HasForeignSuccessRow(rows, pt, k) ==
    \E i \in 1..Len(rows) :
        /\ rows[i].Proof_Type # pt
        /\ rows[i].Status = "SUCCESS"
        /\ rows[i].Chunk_Number = str_int(k)

\* C16: the store is named by the chunk count only, so all categories with
\* that count share it; the completed-set a session loads for its category
\* holds k iff the store has a SUCCESS row of that category for k, whatever
\* SUCCESS rows other categories have written.
C16_CategoryIsolation ==
    /\ \A c1 \in ProofTypes, c2 \in ProofTypes, n \in 1..MaxChunks, m \in 1..MaxChunks :
            csv_path(c1, n) = csv_path(c2, m) <=> n = m
    /\ (pc = "confirm" \/ (pc = "done" /\ h_end = "already_verified"))
       => /\ completed = SuccessSet(csv_rows, proof_type, num_chunks)
          /\ \A k \in 0..(num_chunks - 1) :
                (HasForeignSuccessRow(csv_rows, proof_type, k)
                    /\ ~HasSuccessRow(csv_rows, proof_type, k))
                => /\ k \notin completed
                   /\ \E i \in 1..Len(remaining_chunks) : remaining_chunks[i] = k

\* C16 witness: a four-byte session loads a store in which index 0 has a
\* SUCCESS row of both categories and index 1 one of the two-byte category only
C16_Witness ==
    /\ pc = "confirm"
    /\ proof_type = "4byte"
    /\ num_chunks = 2
    /\ HasSuccessRow(csv_rows, "4byte", 0)
    /\ HasSuccessRow(csv_rows, "2byte", 0)
    /\ HasSuccessRow(csv_rows, "2byte", 1)
    /\ completed = {0}
    /\ remaining_chunks = <<1>>

\* C18: the verdict is 'ALL CHUNKS VERIFIED' only if every plan index has a
\* SUCCESS row of this category in the record at that moment; a session
\* with an index that has none reports partial completion.
C18_VerdictMatchesRecord ==
    /\ verdict = "ALL CHUNKS VERIFIED" => AllHaveSuccess
    /\ (verdict # "none" /\ ~AllHaveSuccess) => verdict = "Partial completion"

\* the indices of the plan without a SUCCESS row of this category when the
\* session started
LackedAtStart ==
    {k \in 0..(num_chunks - 1) : ~HasSuccessRow(h_start_rows, proof_type, k)}

\* C19: if every dispatched job returns and every prompt is answered, the
\* session terminates; it dispatches each remaining index at most once, so
\* the jobs dispatched and the rows appended in a session are at most the
\* indices that lacked a SUCCESS row at its start, and a failed chunk is
\* not dispatched again.
C19_TerminatesDispatchOnce ==
    /\ (pc \in {"confirm", "running", "returned", "prompt"}) ~> (pc = "done")
    /\ [](/\ Len(h_dispatched) <= Cardinality(LackedAtStart)
          /\ RowsAppended <= Len(h_dispatched)
          /\ RowsAppended <= Cardinality(LackedAtStart)
          /\ \A i \in 1..Len(h_dispatched) : h_dispatched[i] \in LackedAtStart
          /\ \A i \in 1..Len(h_dispatched), j \in 1..Len(h_dispatched) :
                i < j => h_dispatched[i] < h_dispatched[j])
    /\ [][(pc = "prompt" /\ pc' = "running")
            => /\ LastRow.Status # "SUCCESS"
               /\ LastRow.Chunk_Number = str_int(LastDispatched)
               /\ h_dispatched' = Append(h_dispatched, remaining_chunks[loop_pos'])
               /\ remaining_chunks[loop_pos'] > LastDispatched]_vars

\* C19 witness: a session of three chunks over: the first chunk failed, the
\* operator went on, the other two were dispatched once each
C19_Witness ==
    /\ pc = "done"
    /\ h_end = "loop_exhausted"
    /\ num_chunks = 3
    /\ Cardinality(LackedAtStart) = 3
    /\ h_dispatched = <<0, 1, 2>>
    /\ RowsAppended = 3
    /\ csv_rows[Len(csv_rows) - 2].Status = "FAILED"
    /\ ~HasSuccessRow(csv_rows, proof_type, 0)

----------------------------------------------------------------------------
(* Properties of concurrent sessions (SpecConc) *)

\* the indices for which some session appended a SUCCESS row
LogSuccessSet ==
    {k \in 0..(ConcChunks - 1) :
        \E i \in 1..Len(c_log) :
            /\ c_log[i].Proof_Type = ConcType
            /\ c_log[i].Status = "SUCCESS"
            /\ c_log[i].Chunk_Number = str_int(k)}

\* the number of positions of rows that hold the row r
Occurrences(rows, r) == Cardinality({i \in 1..Len(rows) : rows[i] = r})

\* C14: with two sessions on the same record, their steps interleaved in any
\* order, every row either session appended is still in the record (as often
\* as it was appended), and the completed-set computed from the record is the
\* set of indices for which a session appended a SUCCESS row.
C14_OnlyDuplicateRows ==
    /\ \A i \in 1..Len(c_log) :
            Occurrences(c_rows, c_log[i]) >= Occurrences(c_log, c_log[i])
    /\ (c_exists /\ c_log # << >>)
       => get_completed_chunks(c_rows, ConcType) = LogSuccessSet

====
